---- MODULE Spec2Model ----
(***************************************************************************)
(* reqwest-pretty-json: the PrettyJson trait (src/lib.rs) extends          *)
(* reqwest::RequestBuilder and reqwest::blocking::RequestBuilder with      *)
(* pretty_json(), which calls the builder's json() and then replaces the   *)
(* body by serde_json::to_vec_pretty of the same value.                    *)
(*                                                                         *)
(* The model holds the caller's data, the builder the client handed out,   *)
(* the receiver and the result of the last pretty_json call, and the       *)
(* request built before this one.  serde_json's two writers, its           *)
(* to_value and its parser are operators over sequences of characters;     *)
(* reqwest's json(), body(), header() and build() are operators over a     *)
(* builder that holds Result<Request, Error>.                              *)
(***************************************************************************)
EXTENDS Integers, Sequences, FiniteSets, TLC

\* ------------------------------------------------------------- bounds

\* Longest array of small integers the caller's data holds.
MaxLen == 3

\* Most entries of a map the caller's data holds.
MaxFields == 2

\* ------------------------------------------------------ Result values

Ok(x) == [ok |-> TRUE, v |-> x]

Err(e) == [ok |-> FALSE, e |-> e]

None == [some |-> FALSE]

Some(x) == [some |-> TRUE, v |-> x]

\* ---------------------------------------------- the caller's data (T)

Unit == [t |-> "unit"]

Bool(b) == [t |-> "bool", b |-> b]

I64(n) == [t |-> "int", n |-> n]

\* A non-finite f64.
NaN == [t |-> "nan"]

\* A string, as the sequence of its characters.
Str(s) == [t |-> "str", s |-> s]

\* Vec<T>.
Vec(a) == [t |-> "seq", a |-> a]

\* A map, as its entries <<key, value>> in iteration order.
Map(m) == [t |-> "map", m |-> m]

QUOTE == "\""

BACKSLASH == "\\"

LF == "\n"

Foo == <<"f", "o", "o">>

Ints == {I64(0), I64(1), I64(2), I64(3), I64(12), I64(-7)}

Strs == {Str(<< >>), Str(Foo), Str(<<"a", QUOTE, "b">>), Str(<<BACKSLASH, LF>>)}

Scalars == {Unit, Bool(TRUE), Bool(FALSE), NaN} \cup Ints \cup Strs

SmallInts == {I64(1), I64(2), I64(3)}

\* Vec<u8> as in the tests: every array of at most MaxLen small integers.
SmallVecs == UNION {{Vec(a) : a \in [1..n -> SmallInts]} : n \in 0..MaxLen}

\* One-element arrays of every scalar, and an array of arrays.
MixedVecs ==
  {Vec(<<x>>) : x \in Scalars}
    \cup {Vec(<<Vec(<< >>), Vec(<<I64(1), I64(2)>>)>>), Vec(<<Map(<< >>), Unit>>)}

\* Map keys: strings, an integer (written as a string), and a Vec<u8>, which
\* serde_json refuses ("key must be a string").
Keys == {Str(Foo), Str(<<"a", QUOTE>>), I64(12), Vec(<<I64(1)>>)}

\* Values held by the single entry of a one-entry map.
FieldValues ==
  {I64(1), Str(Foo), NaN, Vec(<< >>), Vec(<<I64(1), I64(2), I64(3)>>),
   Map(<< >>), Map(<< <<Str(Foo), Bool(TRUE)>> >>)}

\* Keys and values of the maps of two entries and more.
FewKeys == {Str(Foo), I64(12), Vec(<<I64(1)>>)}

FewValues == {I64(1), Vec(<< >>), Vec(<<I64(1), I64(2)>>)}

\* Sequences of n entries with distinct keys.
Entries(n) ==
  {m \in [1..n -> FewKeys \X FewValues] :
     \A i, j \in 1..n : i # j => m[i][1] # m[j][1]}

Maps ==
  {Map(<< >>)}
    \cup {Map(<<e>>) : e \in Keys \X FieldValues}
    \cup UNION {{Map(m) : m \in Entries(n)} : n \in 2..MaxFields}

\* The values the caller may hold.
Payloads == Scalars \cup SmallVecs \cup MixedVecs \cup Maps

\* ------------------------------------------------- serde_json writers

DigitChars == <<"0", "1", "2", "3", "4", "5", "6", "7", "8", "9">>

RECURSIVE Digits(_)
Digits(n) ==
  IF n < 10 THEN <<DigitChars[n + 1]>>
  ELSE Digits(n \div 10) \o <<DigitChars[(n % 10) + 1]>>

\* itoa: the decimal digits, a leading minus for a negative number.
WriteInt(n) == IF n < 0 THEN <<"-">> \o Digits(-n) ELSE Digits(n)

\* format_escaped_str_contents: the escape of one character.
EscapeChar(c) ==
  CASE c = QUOTE -> <<BACKSLASH, QUOTE>>
    [] c = BACKSLASH -> <<BACKSLASH, BACKSLASH>>
    [] c = LF -> <<BACKSLASH, "n">>
    [] OTHER -> <<c>>

RECURSIVE EscapeStr(_)
EscapeStr(s) ==
  IF s = << >> THEN << >> ELSE EscapeChar(Head(s)) \o EscapeStr(Tail(s))

WriteStr(s) == <<QUOTE>> \o EscapeStr(s) \o <<QUOTE>>

Lit(name) ==
  CASE name = "null" -> <<"n", "u", "l", "l">>
    [] name = "true" -> <<"t", "r", "u", "e">>
    [] name = "false" -> <<"f", "a", "l", "s", "e">>

\* MapKeySerializer: a string key as it is, an integer key in quotes, any
\* other key is the error key_must_be_a_string.
WriteKey(k) ==
  CASE k.t = "str" -> Ok(WriteStr(k.s))
    [] k.t = "int" -> Ok(<<QUOTE>> \o WriteInt(k.n) \o <<QUOTE>>)
    [] OTHER -> Err("key must be a string")

RECURSIVE Indent(_)
Indent(level) == IF level = 0 THEN << >> ELSE <<" ", " ">> \o Indent(level - 1)

RECURSIVE Write(_, _, _), WriteSeq(_, _, _, _), WriteMap(_, _, _, _)
\* Serializer::serialize_*: the bytes of value v, with CompactFormatter
\* (pretty = FALSE) or PrettyFormatter (pretty = TRUE) at nesting `level`.
Write(v, pretty, level) ==
  CASE v.t = "unit" -> Ok(Lit("null"))
    [] v.t = "bool" -> Ok(IF v.b THEN Lit("true") ELSE Lit("false"))
    [] v.t = "int" -> Ok(WriteInt(v.n))
    [] v.t = "nan" -> Ok(Lit("null"))
    [] v.t = "str" -> Ok(WriteStr(v.s))
    [] v.t = "seq" ->
         IF v.a = << >> THEN Ok(<<"[", "]">>)
         ELSE LET r == WriteSeq(v.a, pretty, level + 1, TRUE)
              IN  IF ~r.ok THEN r
                  ELSE Ok(<<"[">> \o r.v
                          \o (IF pretty THEN <<LF>> \o Indent(level) ELSE << >>)
                          \o <<"]">>)
    [] v.t = "map" ->
         IF v.m = << >> THEN Ok(<<"{", "}">>)
         ELSE LET r == WriteMap(v.m, pretty, level + 1, TRUE)
              IN  IF ~r.ok THEN r
                  ELSE Ok(<<"{">> \o r.v
                          \o (IF pretty THEN <<LF>> \o Indent(level) ELSE << >>)
                          \o <<"}">>)

\* begin_array_value / end_array_value for each element of a.
WriteSeq(a, pretty, level, first) ==
  IF a = << >> THEN Ok(<< >>)
  ELSE LET sep == IF pretty
                  THEN (IF first THEN <<LF>> ELSE <<",", LF>>) \o Indent(level)
                  ELSE (IF first THEN << >> ELSE <<",">>)
           x == Write(Head(a), pretty, level)
       IN  IF ~x.ok THEN x
           ELSE LET rest == WriteSeq(Tail(a), pretty, level, FALSE)
                IN  IF ~rest.ok THEN rest ELSE Ok(sep \o x.v \o rest.v)

\* begin_object_key / begin_object_value for each entry of m.
WriteMap(m, pretty, level, first) ==
  IF m = << >> THEN Ok(<< >>)
  ELSE LET sep == IF pretty
                  THEN (IF first THEN <<LF>> ELSE <<",", LF>>) \o Indent(level)
                  ELSE (IF first THEN << >> ELSE <<",">>)
           colon == IF pretty THEN <<":", " ">> ELSE <<":">>
           k == WriteKey(Head(m)[1])
       IN  IF ~k.ok THEN k
           ELSE LET x == Write(Head(m)[2], pretty, level)
                IN  IF ~x.ok THEN x
                    ELSE LET rest == WriteMap(Tail(m), pretty, level, FALSE)
                         IN  IF ~rest.ok THEN rest
                             ELSE Ok(sep \o k.v \o colon \o x.v \o rest.v)

\* serde_json::to_vec / to_string: the compact ("terse") writer.
ToVec(v) == Write(v, FALSE, 0)

\* to_vec called where to_vec_pretty was meant.
ToVecTerse(v) == Write(v, FALSE, 0)

\* serde_json::to_vec_pretty / to_string_pretty.
ToVecPretty(v) == Write(v, TRUE, 0)

\* ---------------------------------------------- serde_json::Value

VNull == [j |-> "null"]

VBool(b) == [j |-> "bool", b |-> b]

VNum(n) == [j |-> "num", n |-> n]

VStr(s) == [j |-> "str", s |-> s]

VArr(a) == [j |-> "arr", a |-> a]

\* An object, as the function from its keys to their values.
VObj(o) == [j |-> "obj", o |-> o]

\* MapKeySerializer of value::Serializer: the key as a String.
KeyToString(k) ==
  CASE k.t = "str" -> Ok(k.s)
    [] k.t = "int" -> Ok(WriteInt(k.n))
    [] OTHER -> Err("key must be a string")

RECURSIVE ToValue(_), ToValueSeq(_), ToValueMap(_)
\* serde_json::to_value: a non-finite float becomes Value::Null, a map an
\* object whose keys are strings.
ToValue(v) ==
  CASE v.t = "unit" -> Ok(VNull)
    [] v.t = "bool" -> Ok(VBool(v.b))
    [] v.t = "int" -> Ok(VNum(v.n))
    [] v.t = "nan" -> Ok(VNull)
    [] v.t = "str" -> Ok(VStr(v.s))
    [] v.t = "seq" ->
         LET r == ToValueSeq(v.a) IN IF r.ok THEN Ok(VArr(r.v)) ELSE r
    [] v.t = "map" ->
         LET r == ToValueMap(v.m) IN IF r.ok THEN Ok(VObj(r.v)) ELSE r

ToValueSeq(a) ==
  IF a = << >> THEN Ok(<< >>)
  ELSE LET x == ToValue(Head(a))
       IN  IF ~x.ok THEN x
           ELSE LET rest == ToValueSeq(Tail(a))
                IN  IF ~rest.ok THEN rest ELSE Ok(<<x.v>> \o rest.v)

\* Entries are inserted in order: a later entry replaces an earlier one
\* with the same key string.
ToValueMap(m) ==
  IF m = << >> THEN Ok(<< >>)
  ELSE LET n == Len(m)
           init == ToValueMap(SubSeq(m, 1, n - 1))
       IN  IF ~init.ok THEN init
           ELSE LET k == KeyToString(m[n][1])
                IN  IF ~k.ok THEN k
                    ELSE LET x == ToValue(m[n][2])
                         IN  IF ~x.ok THEN x ELSE Ok((k.v :> x.v) @@ init.v)

\* -------------------------------------------------- serde_json parser

TAB == "\t"

CR == "\r"

IsWs(c) == c \in {" ", LF, TAB, CR}

IsDigit(c) == c \in {DigitChars[d] : d \in 1..10}

DigitVal(c) == CHOOSE d \in 0..9 : DigitChars[d + 1] = c

RECURSIVE SkipWs(_, _)
\* parse_whitespace: the first position at or after i that holds no
\* whitespace.
SkipWs(s, i) ==
  IF i <= Len(s) /\ IsWs(s[i]) THEN SkipWs(s, i + 1) ELSE i

\* parse_ident: the rest of a literal.
ParseIdent(s, i, name, val) ==
  LET w == Lit(name)
  IN  IF i + Len(w) - 1 <= Len(s) /\ SubSeq(s, i, i + Len(w) - 1) = w
      THEN Ok([val |-> val, pos |-> i + Len(w)])
      ELSE Err("expected ident")

RECURSIVE ParseStr(_, _, _)
\* parse_str: the characters from position i to the closing quote, with
\* escapes undone; a raw control character is refused.
ParseStr(s, i, acc) ==
  IF i > Len(s) THEN Err("EOF while parsing a string")
  ELSE LET c == s[i]
       IN  CASE c = QUOTE -> Ok([val |-> acc, pos |-> i + 1])
             [] c = BACKSLASH ->
                  IF i + 1 > Len(s) THEN Err("EOF while parsing a string")
                  ELSE LET e == s[i + 1]
                       IN  CASE e = QUOTE -> ParseStr(s, i + 2, Append(acc, QUOTE))
                             [] e = BACKSLASH ->
                                  ParseStr(s, i + 2, Append(acc, BACKSLASH))
                             [] e = "/" -> ParseStr(s, i + 2, Append(acc, "/"))
                             [] e = "n" -> ParseStr(s, i + 2, Append(acc, LF))
                             [] e = "t" -> ParseStr(s, i + 2, Append(acc, TAB))
                             [] e = "r" -> ParseStr(s, i + 2, Append(acc, CR))
                             [] OTHER -> Err("invalid escape")
             [] c \in {LF, TAB, CR} -> Err("control character in string")
             [] OTHER -> ParseStr(s, i + 1, Append(acc, c))

RECURSIVE ParseDigits(_, _, _)
ParseDigits(s, i, acc) ==
  IF i <= Len(s) /\ IsDigit(s[i])
  THEN ParseDigits(s, i + 1, 10 * acc + DigitVal(s[i]))
  ELSE [val |-> acc, pos |-> i]

\* parse_integer: a zero stands alone, other digits run on.
ParseInteger(s, i, positive) ==
  IF i > Len(s) \/ ~IsDigit(s[i]) THEN Err("invalid number")
  ELSE IF s[i] = "0"
       THEN IF i + 1 <= Len(s) /\ IsDigit(s[i + 1]) THEN Err("invalid number")
            ELSE Ok([val |-> VNum(0), pos |-> i + 1])
       ELSE LET d == ParseDigits(s, i, 0)
            IN  Ok([val |-> VNum(IF positive THEN d.val ELSE -d.val),
                    pos |-> d.pos])

RECURSIVE ParseValue(_, _), ParseElems(_, _, _), ParseMembers(_, _, _)
\* Deserializer::deserialize_any: the value that starts at or after i, and
\* the position after it.
ParseValue(s, i) ==
  LET p == SkipWs(s, i)
  IN  IF p > Len(s) THEN Err("EOF while parsing a value")
      ELSE LET c == s[p]
           IN  CASE c = "n" -> ParseIdent(s, p, "null", VNull)
                 [] c = "t" -> ParseIdent(s, p, "true", VBool(TRUE))
                 [] c = "f" -> ParseIdent(s, p, "false", VBool(FALSE))
                 [] c = "-" -> ParseInteger(s, p + 1, FALSE)
                 [] IsDigit(c) -> ParseInteger(s, p, TRUE)
                 [] c = QUOTE ->
                      LET r == ParseStr(s, p + 1, << >>)
                      IN  IF r.ok THEN Ok([val |-> VStr(r.v.val), pos |-> r.v.pos])
                          ELSE r
                 [] c = "[" ->
                      LET q == SkipWs(s, p + 1)
                      IN  IF q <= Len(s) /\ s[q] = "]"
                          THEN Ok([val |-> VArr(<< >>), pos |-> q + 1])
                          ELSE ParseElems(s, q, << >>)
                 [] c = "{" ->
                      LET q == SkipWs(s, p + 1)
                      IN  IF q <= Len(s) /\ s[q] = "}"
                          THEN Ok([val |-> VObj(<< >>), pos |-> q + 1])
                          ELSE ParseMembers(s, q, << >>)
                 [] OTHER -> Err("expected value")

\* SeqAccess: the elements, each followed by a comma or the closing bracket.
ParseElems(s, i, acc) ==
  LET x == ParseValue(s, i)
  IN  IF ~x.ok THEN x
      ELSE LET p == SkipWs(s, x.v.pos)
               a == Append(acc, x.v.val)
           IN  IF p > Len(s) THEN Err("EOF while parsing a list")
               ELSE IF s[p] = "," THEN ParseElems(s, p + 1, a)
               ELSE IF s[p] = "]" THEN Ok([val |-> VArr(a), pos |-> p + 1])
               ELSE Err("expected , or ]")

\* MapAccess: the members "key": value, each followed by a comma or the
\* closing brace; a repeated key keeps its last value.
ParseMembers(s, i, acc) ==
  LET p == SkipWs(s, i)
  IN  IF p > Len(s) \/ s[p] # QUOTE THEN Err("key must be a string")
      ELSE LET k == ParseStr(s, p + 1, << >>)
           IN  IF ~k.ok THEN k
               ELSE LET c == SkipWs(s, k.v.pos)
                    IN  IF c > Len(s) \/ s[c] # ":" THEN Err("expected :")
                        ELSE LET x == ParseValue(s, c + 1)
                             IN  IF ~x.ok THEN x
                                 ELSE LET e == SkipWs(s, x.v.pos)
                                          o == (k.v.val :> x.v.val) @@ acc
                                      IN  IF e > Len(s)
                                          THEN Err("EOF while parsing an object")
                                          ELSE IF s[e] = ","
                                          THEN ParseMembers(s, e + 1, o)
                                          ELSE IF s[e] = "}"
                                          THEN Ok([val |-> VObj(o), pos |-> e + 1])
                                          ELSE Err("expected , or }")

\* serde_json::from_slice: one value, then nothing but whitespace.
FromSlice(s) ==
  LET x == ParseValue(s, 1)
  IN  IF ~x.ok THEN x
      ELSE IF SkipWs(s, x.v.pos) <= Len(s) THEN Err("trailing characters")
      ELSE Ok(x.v.val)

\* ------------------------------------------------------------ reqwest

CONTENT_TYPE == "content-type"

APPLICATION_JSON == "application/json"

ACCEPT == "accept"

Kinds == {"async", "blocking"}

Methods == {"POST", "GET"}

\* The URLs the caller passes: the one of the tests, and one that does not
\* parse, which leaves the builder holding the error.
Urls == {"http://httpbin.org/post", "httpbin"}

ValidUrls == {"http://httpbin.org/post"}

\* The headers a builder carries when pretty_json receives it: none (fresh
\* from the client) or one the caller added; never a Content-Type.
HeaderSets == {<< >>, (ACCEPT :> "*/*")}

\* Client::post(url), Client::get(url): a builder of the client's kind that
\* holds Result<Request, Error>, with the headers hs added by the caller.
NewBuilder(k, method, url, hs) ==
  [kind |-> k,
   request |->
     IF url \in ValidUrls
     THEN Ok([method |-> method, url |-> url, headers |-> hs, body |-> None])
     ELSE Err("builder error: relative URL without a base")]

\* RequestBuilder::json that sets the body and no Content-Type header.
JsonNoHeader(rb, json) ==
  IF ~rb.request.ok THEN rb
  ELSE LET r == ToVec(json)
       IN  IF r.ok
           THEN [rb EXCEPT !.request.v.body = Some(r.v)]
           ELSE [rb EXCEPT !.request = Err(r.e)]

\* RequestBuilder::json that drops a serialization error.
JsonSwallowsError(rb, json) ==
  IF ~rb.request.ok THEN rb
  ELSE LET r == ToVec(json)
       IN  IF r.ok
           THEN [rb EXCEPT
                   !.request.v.headers =
                     (CONTENT_TYPE :> APPLICATION_JSON) @@ @,
                   !.request.v.body = Some(r.v)]
           ELSE rb

\* RequestBuilder::json: on a builder that holds a request, the compact
\* serialization becomes the body and Content-Type: application/json is
\* set; a serialization error replaces the request.  A builder that holds
\* an error is returned as it is.
Json(rb, json) ==
  IF ~rb.request.ok THEN rb
  ELSE LET r == ToVec(json)
       IN  IF r.ok
           THEN [rb EXCEPT
                   !.request.v.headers =
                     (CONTENT_TYPE :> APPLICATION_JSON) @@ @,
                   !.request.v.body = Some(r.v)]
           ELSE [rb EXCEPT !.request = Err(r.e)]

\* RequestBuilder::body that keeps a body already set.
BodyKeepsExisting(rb, bytes) ==
  IF rb.request.ok /\ ~rb.request.v.body.some
  THEN [rb EXCEPT !.request.v.body = Some(bytes)]
  ELSE rb

\* RequestBuilder::body that appends to a body already set.
BodyAppends(rb, bytes) ==
  IF rb.request.ok
  THEN [rb EXCEPT
          !.request.v.body =
            IF @.some THEN Some(@.v \o bytes) ELSE Some(bytes)]
  ELSE rb

\* RequestBuilder::body that sets no body on a GET request.
BodyNotForGet(rb, bytes) ==
  IF rb.request.ok /\ rb.request.v.method # "GET"
  THEN [rb EXCEPT !.request.v.body = Some(bytes)]
  ELSE rb

\* RequestBuilder::body: replaces the body of the request the builder
\* holds; a builder that holds an error is returned as it is.
Body(rb, bytes) ==
  IF rb.request.ok THEN [rb EXCEPT !.request.v.body = Some(bytes)] ELSE rb

\* RequestBuilder::build: the request, or the error the builder holds.
Build(rb) == rb.request

\* ------------------------------------------------------ pretty_json

\* pretty_json with the two steps in the other order.
PrettyJsonJsonLast(this, json) ==
  LET r == ToVecPretty(json)
  IN  IF r.ok THEN Json(Body(this, r.v), json) ELSE Json(this, json)

\* pretty_json whose Err arm returns the receiver.
PrettyJsonErrKeepsSelf(this, json) ==
  LET built == Json(this, json)
      r == ToVecPretty(json)
  IN  IF r.ok THEN Body(built, r.v) ELSE this

\* pretty_json that sets header and body by hand, without json().
PrettyJsonNoJson(this, json) ==
  LET r == ToVecPretty(json)
  IN  IF r.ok
      THEN Body([this EXCEPT
                   !.request =
                     IF @.ok
                     THEN [@ EXCEPT
                             !.v.headers =
                               (CONTENT_TYPE :> APPLICATION_JSON) @@ @]
                     ELSE @],
                r.v)
      ELSE this

\* impl PrettyJson<T> for reqwest::RequestBuilder.
PrettyJson(this, json) ==
  LET built == Json(this, json)
      r == ToVecPretty(json)
  IN  IF r.ok THEN Body(built, r.v) ELSE built

\* impl PrettyJson<T> for reqwest::blocking::RequestBuilder.
PrettyJsonBlocking(this, json) ==
  LET built == Json(this, json)
      r == ToVecPretty(json)
  IN  IF r.ok THEN Body(built, r.v) ELSE built

\* -------------------------------------------------------------- state

\* No builder in hand.
NoBuilder == [kind |-> "none", request |-> Err("no builder")]

\* No request built yet.
NoRequest == [built |-> FALSE]

VARIABLES
  data,     \* the value the caller serializes, passed as &data to every call
  self,     \* the receiver of the last pretty_json call
  builder,  \* the builder in hand: from the client, then from pretty_json
  pc,       \* "client": no builder; "builder": one in hand; "called"
  prev      \* the receiver and the result of build() of the request before

vars == <<data, self, builder, pc, prev>>

Init ==
  /\ data \in Payloads
  /\ self = NoBuilder
  /\ builder = NoBuilder
  /\ pc = "client"
  /\ prev = NoRequest

\* client.post(url) / client.get(url), and the headers the caller adds.
Request ==
  /\ pc = "client"
  /\ \E k \in Kinds, method \in Methods, url \in Urls, hs \in HeaderSets :
       builder' = NewBuilder(k, method, url, hs)
  /\ pc' = "builder"
  /\ UNCHANGED <<data, self, prev>>

\* .pretty_json(&data) on a reqwest::RequestBuilder.
CallPrettyJson ==
  /\ pc = "builder"
  /\ builder.kind = "async"
  /\ self' = builder
  /\ builder' = PrettyJson(builder, data)
  /\ pc' = "called"
  /\ UNCHANGED <<data, prev>>

\* .pretty_json(&data) on a reqwest::blocking::RequestBuilder.
CallPrettyJsonBlocking ==
  /\ pc = "builder"
  /\ builder.kind = "blocking"
  /\ self' = builder
  /\ builder' = PrettyJsonBlocking(builder, data)
  /\ pc' = "called"
  /\ UNCHANGED <<data, prev>>

\* .build(): the builder is consumed, the client is free for the next
\* request.
BuildRequest ==
  /\ pc = "called"
  /\ prev' = [built |-> TRUE, self |-> self, request |-> Build(builder)]
  /\ self' = NoBuilder
  /\ builder' = NoBuilder
  /\ pc' = "client"
  /\ UNCHANGED data

Next ==
  \/ Request
  \/ CallPrettyJson
  \/ CallPrettyJsonBlocking
  \/ BuildRequest

Spec == Init /\ [][Next]_vars

\* ------------------------------------------------------------- claims

\* A pretty_json call has returned.
Called == pc = "called"

\* The receiver held a request, not an error, when pretty_json got it.
Valid == self.request.ok

\* to_vec_pretty(&data) succeeds.
PrettyOk == ToVecPretty(data).ok

\* A container with at least one element or entry.
NonTrivial(v) ==
  \/ v.t = "seq" /\ v.a # << >>
  \/ v.t = "map" /\ v.m # << >>

\* The body of a built request; None for an error.
BodyOf(req) == IF req.ok THEN req.v.body ELSE None

\* The Content-Type of a built request; None for an error or no header.
ContentTypeOf(req) ==
  IF req.ok /\ CONTENT_TYPE \in DOMAIN req.v.headers
  THEN Some(req.v.headers[CONTENT_TYPE])
  ELSE None

\* The data of the tests: {"foo": [1, 2, 3]}.
FooData == Map(<< <<Str(Foo), Vec(<<I64(1), I64(2), I64(3)>>)>> >>)

\* to_string_pretty of FooData, as serde_json prints it.
FooPretty ==
  <<"{", LF,
    " ", " ", QUOTE, "f", "o", "o", QUOTE, ":", " ", "[", LF,
    " ", " ", " ", " ", "1", ",", LF,
    " ", " ", " ", " ", "2", ",", LF,
    " ", " ", " ", " ", "3", LF,
    " ", " ", "]", LF,
    "}">>

\* C1: when pretty serialization of the data succeeds, the body of the
\* builder pretty_json returns is, byte for byte, to_vec_pretty of the data
\* (for {"foo": [1, 2, 3]} the indented text serde_json prints), not the
\* compact body json() set first.
C1_BodyIsPretty ==
  (Called /\ Valid /\ PrettyOk) =>
    /\ builder.request.ok
    /\ builder.request.v.body = Some(ToVecPretty(data).v)
    /\ (data = FooData => builder.request.v.body = Some(FooPretty))

C1_Witness ==
  /\ Called /\ Valid /\ PrettyOk
  /\ data = FooData
  /\ builder.request.v.body # Some(ToVec(data).v)

\* C2: when pretty serialization of the data succeeds, the Content-Type
\* header of the builder pretty_json returns is exactly application/json.
C2_ContentTypeIsJson ==
  (Called /\ Valid /\ PrettyOk) =>
    ContentTypeOf(builder.request) = Some("application/json")

C2_Witness ==
  /\ Called /\ Valid /\ PrettyOk
  /\ builder.kind = "blocking"
  /\ ACCEPT \in DOMAIN builder.request.v.headers
  /\ builder.request.v.headers[CONTENT_TYPE] = APPLICATION_JSON

C4_HeaderInBothCases ==
  (Called /\ Valid) =>
    ContentTypeOf(builder.request) = Some(APPLICATION_JSON)

\* C4 amended: the returned builder carries Content-Type: application/json
\* exactly when json() could serialize the data; when it could not, and
\* that is when pretty serialization fails too, json() sets no header and
\* the builder holds the serialization error.
C4_HeaderIffSerialized ==
  (Called /\ Valid) =>
    /\ ToVec(data).ok = PrettyOk
    /\ IF ToVec(data).ok
       THEN ContentTypeOf(builder.request) = Some(APPLICATION_JSON)
       ELSE /\ ~builder.request.ok
            /\ builder.request = Err(ToVec(data).e)
            /\ ContentTypeOf(builder.request) = None

C4_Witness ==
  /\ Called /\ Valid /\ ~PrettyOk
  /\ ~builder.request.ok
  /\ ContentTypeOf(builder.request) = None

\* C5: the request pretty_json leads to is an error exactly when the
\* request json() alone leads to is one, and then it is the same error.
C5_ErrorsAsJson ==
  Called =>
    /\ Build(builder).ok = Build(Json(self, data)).ok
    /\ (~Build(builder).ok => Build(builder) = Build(Json(self, data)))

C5_Witness ==
  /\ Called /\ Valid
  /\ ~Build(builder).ok
  /\ ~Build(Json(self, data)).ok

\* C6: when pretty serialization succeeds, parsing the body pretty_json set
\* gives the value to_value gives for the data, the same that parsing the
\* compact serialization gives.
C6_RoundTrip ==
  (Called /\ Valid /\ PrettyOk) =>
    /\ builder.request.ok /\ builder.request.v.body.some
    /\ LET decoded == FromSlice(builder.request.v.body.v)
       IN  /\ decoded.ok
           /\ decoded = ToValue(data)
           /\ decoded = FromSlice(ToVec(data).v)

C6_Witness ==
  /\ Called /\ Valid /\ PrettyOk
  /\ data = Map(<< <<I64(12), Vec(<< >>)>>, <<Str(Foo), I64(1)>> >>)
  /\ FromSlice(builder.request.v.body.v) =
       Ok(VObj((<<"1", "2">> :> VArr(<< >>)) @@ (Foo :> VNum(1))))

\* C7: for a container with at least one element or entry whose pretty
\* serialization succeeds, the body pretty_json set differs from the
\* compact serialization json() alone sets; the two coincide only for
\* scalars and empty containers, as for the empty map {}.
C7_PrettyDiffersFromCompact ==
  (Called /\ Valid /\ PrettyOk) =>
    /\ NonTrivial(data) => BodyOf(builder.request) # Some(ToVec(data).v)
    /\ BodyOf(builder.request) = BodyOf(Json(self, data).request)
         => ~NonTrivial(data)
    /\ data = Map(<< >>) => BodyOf(builder.request) = Some(<<"{", "}">>)

C7_Witness ==
  /\ Called /\ Valid /\ PrettyOk
  /\ NonTrivial(data)
  /\ data.t = "map" /\ Len(data.m) = 2
  /\ BodyOf(builder.request) # Some(ToVec(data).v)

\* A builder as the client hands it out: a request with no header and no
\* body.
Fresh(rb) ==
  /\ rb.request.ok
  /\ rb.request.v.headers = << >>
  /\ rb.request.v.body = None

C9_VariantsAgree ==
  (/\ Called /\ prev.built
   /\ self.kind # prev.self.kind
   /\ self.request = prev.self.request) =>
    Build(builder) = prev.request

C9_Witness ==
  /\ Called /\ prev.built
  /\ self.kind = "blocking" /\ prev.self.kind = "async"
  /\ self.request = prev.self.request
  /\ Valid /\ PrettyOk /\ NonTrivial(data)
  /\ Build(builder) = prev.request

\* C10: the builder pretty_json returns is the one json() returns with
\* nothing but the body changed: same kind, method, URL and headers, the
\* same error if json() failed; and its body is the one written last, the
\* pretty one, when pretty serialization succeeds.
C10_OnlyBodyChanged ==
  Called =>
    LET j == Json(self, data)
    IN  /\ builder.kind = j.kind
        /\ builder.request.ok = j.request.ok
        /\ ~j.request.ok => builder.request = j.request
        /\ j.request.ok =>
             /\ builder.request.v.method = j.request.v.method
             /\ builder.request.v.url = j.request.v.url
             /\ builder.request.v.headers = j.request.v.headers
             /\ builder.request.v.method = self.request.v.method
             /\ builder.request.v.url = self.request.v.url
             /\ \A h \in DOMAIN self.request.v.headers :
                  builder.request.v.headers[h] = self.request.v.headers[h]
             /\ PrettyOk => builder.request.v.body = Some(ToVecPretty(data).v)

C10_Witness ==
  /\ Called /\ Valid /\ PrettyOk
  /\ ACCEPT \in DOMAIN self.request.v.headers
  /\ builder.request.v.headers = Json(self, data).request.v.headers
  /\ builder.request.v.body # Json(self, data).request.v.body

====
